---- MODULE Spec2Model ----
(***************************************************************************)
(* Model of argetype.ConfigBase (src/argetype/__init__.py): a settings     *)
(* facade that derives an argparse parser and a synthesized __call__ from  *)
(* a typed declaration.  A run constructs one facade (setup, make_call,    *)
(* make_parser, optional parse_args) and then applies any sequence of      *)
(* parse_args(tokens) and __call__(...) operations to it.                  *)
(***************************************************************************)
EXTENDS Integers, Sequences, FiniteSets, TLC

VARIABLES decl, pc, err, groups, _settings, _annotations, callParams,
          parser, hasSettings, settings, attrs, lastOp

vars == <<decl, pc, err, groups, _settings, _annotations, callParams,
          parser, hasSettings, settings, attrs, lastOp>>

(* Longest token sequence handed to parse_args.                            *)
MaxTokens == 2

-----------------------------------------------------------------------------
(* Python values.  One record shape for every value so that values of      *)
(* different Python types can be compared.  A float is held in tenths.     *)

V(tag, i, s, b) == [tag |-> tag, i |-> i, s |-> s, b |-> b]

NoneV == V("none", 0, "", FALSE)

(* inspect.Parameter.empty: the default of a parameter that has none.      *)
EmptyV == V("empty", 0, "", FALSE)

IntV(n) == V("int", n, "", FALSE)

FloatV(t) == V("float", t, "", FALSE)

StrV(s) == V("str", 0, s, FALSE)

BoolV(b) == V("bool", 0, "", b)

(* A failed lookup (KeyError / AttributeError).                            *)
MissingV == V("missing", 0, "", FALSE)

(* bool(v) as Python computes it; inspect.Parameter.empty is a class and   *)
(* therefore true.                                                         *)
Truthy(v) ==
    CASE v.tag = "none"  -> FALSE
      [] v.tag = "empty" -> TRUE
      [] v.tag = "int"   -> v.i # 0
      [] v.tag = "float" -> v.i # 0
      [] v.tag = "str"   -> v.s # ""
      [] v.tag = "bool"  -> v.b
      [] OTHER           -> TRUE

EmptyMap == [n \in {} |-> NoneV]

-----------------------------------------------------------------------------
(* Declarations: the settings classes a facade is built from.              *)

Field(name, typ, hasDefault, default) ==
    [name |-> name, typ |-> typ, hasDefault |-> hasDefault, default |-> default]

Req(name, typ) == Field(name, typ, FALSE, NoneV)

Opt(name, typ, default) == Field(name, typ, TRUE, default)

Group(name, fields) == [name |-> name, fields |-> fields]

Decl(style, fields, grps) == [style |-> style, fields |-> fields, groups |-> grps]

NetGroup == Group("Net", <<Opt("host", "str", StrV("localhost")),
                           Opt("port", "int", IntV(8080))>>)

Decls ==
    { Decl("annotated", <<Req("a", "int"), Opt("b", "float", FloatV(1)),
                          Opt("c", "str", StrV("a"))>>, <<>>),
      Decl("annotated", <<Opt("flag", "bool", BoolV(FALSE))>>, <<>>),
      Decl("annotated", <<Opt("flag", "bool", BoolV(TRUE)),
                          Opt("n", "int", IntV(0))>>, <<>>),
      Decl("annotated", <<Req("flag", "bool"), Req("a", "int")>>, <<>>),
      Decl("annotated", <<Opt("x", "int", NoneV), Req("a", "int")>>, <<>>),
      Decl("annotated", <<>>, <<NetGroup>>),
      Decl("annotated", <<>>, <<Group("A", <<Opt("x", "int", IntV(1))>>),
                                Group("B", <<Opt("y", "str", StrV("s"))>>)>>),
      Decl("annotated", <<Opt("a", "int", IntV(5))>>, <<NetGroup>>),
      Decl("signature", <<Opt("a", "int", IntV(5)),
                          Opt("b", "float", FloatV(1))>>, <<>>),
      Decl("signature", <<Opt("n", "int", IntV(0)),
                          Opt("flag", "bool", BoolV(FALSE))>>, <<>>),
      Decl("signature", <<Opt("flag", "bool", BoolV(TRUE)),
                          Opt("s", "str", StrV(""))>>, <<>>),
      Decl("signature", <<Req("a", "int")>>, <<>>) }

RECURSIVE SeqConcat(_)
SeqConcat(ss) == IF ss = <<>> THEN <<>> ELSE Head(ss) \o SeqConcat(Tail(ss))

Range(s) == {s[i] : i \in 1..Len(s)}

(* Every field of a declaration, top level first, then group by group.     *)
AllFields(d) == d.fields \o SeqConcat([i \in 1..Len(d.groups) |-> d.groups[i].fields])

FieldNames(d) == {f.name : f \in Range(AllFields(d))}

-----------------------------------------------------------------------------
(* ConfigBase.add_arg_format: one (flag, kwargs) pair per field.           *)

(* A command-line string: its count of leading dashes and the text after   *)
(* them.  Field names and value tokens hold no dash.                       *)
Str(dashes, text) == [dashes |-> dashes, text |-> text]

(* f'--{name}'                                                             *)
Flag(name) == Str(2, name)

Bare(name) == Str(0, name)

(* A boolean field whose flag stores True whatever the default is.         *)
add_arg_format_store_true(name, default, typ, positional) ==
    IF typ = "bool"
    THEN [flag |-> Flag(name),
          kw |-> [default |-> default, action |-> "store_const",
                  const |-> BoolV(TRUE), type |-> "none"]]
    ELSE [flag |-> IF positional THEN Bare(name) ELSE Flag(name),
          kw |-> [default |-> default, action |-> "store",
                  const |-> NoneV, type |-> typ]]

(* A value field that always gets the optional form.                       *)
add_arg_format_always_optional(name, default, typ, positional) ==
    IF typ = "bool"
    THEN [flag |-> Flag(name),
          kw |-> [default |-> default, action |-> "store_const",
                  const |-> BoolV(~Truthy(default)), type |-> "none"]]
    ELSE [flag |-> Flag(name),
          kw |-> [default |-> default, action |-> "store",
                  const |-> NoneV, type |-> typ]]

add_arg_format(name, default, typ, positional) ==
    IF typ = "bool"
    THEN [flag |-> Flag(name),
          kw |-> [default |-> default, action |-> "store_const",
                  const |-> BoolV(~Truthy(default)), type |-> "none"]]
    ELSE [flag |-> IF positional THEN Bare(name) ELSE Flag(name),
          kw |-> [default |-> default, action |-> "store",
                  const |-> NoneV, type |-> typ]]

(* The annotated path of setup: the default is the class variable when the *)
(* class body assigns one, else None; positional iff it assigns none.      *)
AnnotatedSpecs(fields) ==
    [i \in 1..Len(fields) |->
        add_arg_format(fields[i].name,
                       IF fields[i].hasDefault THEN fields[i].default ELSE NoneV,
                       fields[i].typ,
                       ~fields[i].hasDefault)]

(* inspect.signature(self.setup).parameters[p].default                    *)
SigDefault(f) == IF f.hasDefault THEN f.default ELSE EmptyV

(* The signature fallback of setup: positional iff the default is falsy.   *)
SignatureSpecs(fields) ==
    [i \in 1..Len(fields) |->
        add_arg_format(fields[i].name,
                       SigDefault(fields[i]),
                       fields[i].typ,
                       ~Truthy(SigDefault(fields[i])))]

(* The spec collection: a flat list, or an ordered mapping of group name   *)
(* to list once groups are present.                                        *)
FlatSettings(specs) == [grouped |-> FALSE, flat |-> specs, byGroup |-> <<>>]

GroupedSettings(entries) == [grouped |-> TRUE, flat |-> <<>>, byGroup |-> entries]

NoSettings == FlatSettings(<<>>)

GroupEntries(grps) ==
    [i \in 1..Len(grps) |->
        [name |-> grps[i].name, specs |-> AnnotatedSpecs(grps[i].fields)]]

(* typing.get_type_hints(cls): the annotated top-level fields.             *)
Annotations(d) == IF d.style = "annotated" THEN d.fields ELSE <<>>

(* self.setup() is called without arguments: a setup signature with a      *)
(* parameter that has no default cannot be called.                         *)
SetupCallFails(d) ==
    d.style = "signature" /\ \E f \in Range(d.fields) : ~f.hasDefault

(* OrderedDict(('default', specs)) takes the pair for a sequence of pairs  *)
(* and raises ValueError.                                                  *)
DefaultGroupFails(d) == Annotations(d) # <<>> /\ d.groups # <<>>

NoOp == [kind |-> "none", ok |-> TRUE, err |-> "none", tokens |-> <<>>,
         pos |-> <<>>, kw |-> EmptyMap]

Init ==
    /\ decl \in Decls
    /\ pc = "new"
    /\ err = "none"
    /\ groups = FALSE
    /\ _settings = NoSettings
    /\ _annotations = {}
    /\ callParams = <<>>
    /\ parser = <<>>
    /\ hasSettings = FALSE
    /\ settings = EmptyMap
    /\ attrs = EmptyMap
    /\ lastOp = NoOp

(* ConfigBase.setup, as called from __init__.                              *)
Setup ==
    /\ pc = "new"
    /\ IF SetupCallFails(decl)
       THEN /\ pc' = "failed"
            /\ err' = "TypeError"
            /\ UNCHANGED <<groups, _settings, _annotations>>
       ELSE /\ _annotations' = {f.name : f \in Range(Annotations(decl))}
            /\ IF Annotations(decl) # <<>> \/ decl.groups # <<>>
               THEN IF decl.groups # <<>>
                    THEN /\ groups' = TRUE
                         /\ IF DefaultGroupFails(decl)
                            THEN /\ _settings' = FlatSettings(AnnotatedSpecs(Annotations(decl)))
                                 /\ pc' = "failed"
                                 /\ err' = "ValueError"
                            ELSE /\ _settings' = GroupedSettings(GroupEntries(decl.groups))
                                 /\ pc' = "setup"
                                 /\ err' = "none"
                    ELSE /\ groups' = FALSE
                         /\ _settings' = FlatSettings(AnnotatedSpecs(Annotations(decl)))
                         /\ pc' = "setup"
                         /\ err' = "none"
               ELSE /\ groups' = FALSE
                    /\ _settings' = FlatSettings(SignatureSpecs(decl.fields))
                    /\ pc' = "setup"
                    /\ err' = "none"
    /\ UNCHANGED <<decl, callParams, parser, hasSettings, settings, attrs, lastOp>>

-----------------------------------------------------------------------------
(* ConfigBase.make_call: the parameter list of the synthesized __call__.   *)

(* s[0].replace('-', ''): what is left of a flag is the field name.        *)
StripDashes(flag) == flag.text

(* sorted(specs, key=lambda x: x[1]['default'] is None, reverse=True):     *)
(* a stable sort, the specs whose default is None first.                   *)
SortedByDefaultIsNone(specs) ==
    SelectSeq(specs, LAMBDA sp : sp.kw.default = NoneV)
        \o SelectSeq(specs, LAMBDA sp : sp.kw.default # NoneV)

(* Sorting a mapping iterates its keys, the group names: the key function  *)
(* takes x[1], a character of the first name (IndexError when the name has *)
(* one character), and indexes it with 'default' (TypeError).              *)
GroupedKeyError(st) ==
    IF Len(st.byGroup[1].name) < 2 THEN "IndexError" ELSE "TypeError"

MakeCall ==
    /\ pc = "setup"
    /\ IF _settings.grouped
       THEN /\ pc' = "failed"
            /\ err' = GroupedKeyError(_settings)
            /\ UNCHANGED callParams
       ELSE /\ callParams' =
                 [i \in 1..Len(_settings.flat) |->
                     StripDashes(SortedByDefaultIsNone(_settings.flat)[i].flag)]
            /\ pc' = "call"
            /\ UNCHANGED err
    /\ UNCHANGED <<decl, groups, _settings, _annotations, parser,
                   hasSettings, settings, attrs, lastOp>>

(* ConfigBase.make_parser: one add_argument per spec, group by group.      *)
RegisteredSpecs(st) ==
    IF st.grouped
    THEN SeqConcat([i \in 1..Len(st.byGroup) |-> st.byGroup[i].specs])
    ELSE st.flat

MakeParser ==
    /\ pc = "call"
    /\ parser' = RegisteredSpecs(_settings)
    /\ pc' = "parser"
    /\ UNCHANGED <<decl, err, groups, _settings, _annotations, callParams,
                   hasSettings, settings, attrs, lastOp>>

-----------------------------------------------------------------------------
(* argparse.ArgumentParser.parse_args over the registered specs.           *)

ValueTokens == {Bare("5"), Bare("2.0")}

Alphabet(d) == {Flag(n) : n \in FieldNames(d)} \cup ValueTokens

TokenSeqs(d) == UNION {[1..k -> Alphabet(d)] : k \in 0..MaxTokens}

(* A token that starts with the prefix character.                          *)
IsOptionString(t) == t.dashes > 0

IsPositional(sp) == ~IsOptionString(sp.flag)

Conv(ok, v) == [ok |-> ok, v |-> v]

(* type(token): int("5") = 5, int("2.0") raises, float("5") = 5.0,         *)
(* float("2.0") = 2.0, str(t) = t.                                         *)
Convert(typ, tok) ==
    CASE typ = "int" ->
            IF tok.text = "5" THEN Conv(TRUE, IntV(5))
            ELSE IF tok.text = "7" THEN Conv(TRUE, IntV(7))
            ELSE Conv(FALSE, NoneV)
      [] typ = "float" ->
            IF tok.text = "5" THEN Conv(TRUE, FloatV(50))
            ELSE IF tok.text = "7" THEN Conv(TRUE, FloatV(70))
            ELSE IF tok.text = "2.0" THEN Conv(TRUE, FloatV(20))
            ELSE Conv(FALSE, NoneV)
      [] OTHER -> Conv(TRUE, StrV(tok.text))

ParseFailure == [ok |-> FALSE, ns |-> EmptyMap]

(* The namespace before any token is read: every dest at its default.      *)
DefaultNamespace(p) ==
    [n \in {StripDashes(p[k].flag) : k \in 1..Len(p)} |->
        (LET k == CHOOSE j \in 1..Len(p) : StripDashes(p[j].flag) = n
         IN  p[k].kw.default)]

(* A default that is a string is passed through the type of its action     *)
(* when the action was never seen.                                         *)
StringDefaultsConvert(p, seen) ==
    \A k \in (1..Len(p)) \ seen :
        (p[k].kw.action = "store" /\ p[k].kw.default.tag = "str")
            => Convert(p[k].kw.type, Bare(p[k].kw.default.s)).ok

ConvertStringDefaults(p, ns, seen) ==
    [n \in DOMAIN ns |->
        (LET k == CHOOSE j \in 1..Len(p) : StripDashes(p[j].flag) = n
         IN  IF k \notin seen /\ p[k].kw.action = "store"
                /\ p[k].kw.default.tag = "str"
             THEN Convert(p[k].kw.type, Bare(p[k].kw.default.s)).v
             ELSE ns[n])]

(* End of input: a positional that got no token is a missing required      *)
(* argument.                                                               *)
Finish(p, ns, seen) ==
    IF \E k \in (1..Len(p)) \ seen : IsPositional(p[k])
    THEN ParseFailure
    ELSE IF ~StringDefaultsConvert(p, seen)
    THEN ParseFailure
    ELSE [ok |-> TRUE, ns |-> ConvertStringDefaults(p, ns, seen)]

RECURSIVE Scan(_, _, _, _, _)
Scan(p, toks, i, ns, seen) ==
    IF i > Len(toks)
    THEN Finish(p, ns, seen)
    ELSE IF IsOptionString(toks[i])
    THEN IF \E k \in 1..Len(p) : p[k].flag = toks[i]
         THEN LET k == CHOOSE j \in 1..Len(p) : p[j].flag = toks[i]
                  dest == StripDashes(p[k].flag)
              IN  IF p[k].kw.action = "store_const"
                  THEN Scan(p, toks, i + 1,
                            [ns EXCEPT ![dest] = p[k].kw.const], seen \cup {k})
                  ELSE IF i + 1 > Len(toks) \/ IsOptionString(toks[i + 1])
                  THEN ParseFailure    \* expected one argument
                  ELSE IF ~Convert(p[k].kw.type, toks[i + 1]).ok
                  THEN ParseFailure    \* invalid value
                  ELSE Scan(p, toks, i + 2,
                            [ns EXCEPT ![dest] = Convert(p[k].kw.type, toks[i + 1]).v],
                            seen \cup {k})
         ELSE ParseFailure             \* unrecognized arguments
    ELSE IF \E k \in (1..Len(p)) \ seen : IsPositional(p[k])
    THEN LET k == CHOOSE j \in (1..Len(p)) \ seen :
                      /\ IsPositional(p[j])
                      /\ \A m \in (1..Len(p)) \ seen : IsPositional(p[m]) => j <= m
             dest == StripDashes(p[k].flag)
         IN  IF ~Convert(p[k].kw.type, toks[i]).ok
             THEN ParseFailure         \* invalid value
             ELSE Scan(p, toks, i + 1,
                       [ns EXCEPT ![dest] = Convert(p[k].kw.type, toks[i]).v],
                       seen \cup {k})
    ELSE ParseFailure                  \* unrecognized arguments

Parse(p, toks) == Scan(p, toks, 1, DefaultNamespace(p), {})

-----------------------------------------------------------------------------
(* ConfigBase.parse_args and the end of __init__.                          *)

ParseOp(toks, ok) ==
    [kind |-> "parse", ok |-> ok, err |-> IF ok THEN "none" ELSE "ParseError",
     tokens |-> toks, pos |-> <<>>, kw |-> EmptyMap]

(* The instance attributes after the loop over self._annotations.          *)
AttrsAfterParse(at, annots, ns) ==
    [n \in DOMAIN at \cup (annots \cap DOMAIN ns) |->
        IF n \in annots \cap DOMAIN ns THEN ns[n] ELSE at[n]]

(* parse_args(tokens) on a constructed facade.  A rejected input raises    *)
(* out of parser.parse_args before self.settings is assigned.              *)
ParseArgs ==
    /\ pc = "ready"
    /\ \E toks \in TokenSeqs(decl) :
          LET r == Parse(parser, toks)
          IN  IF r.ok
              THEN /\ settings' = r.ns
                   /\ hasSettings' = TRUE
                   /\ attrs' = AttrsAfterParse(attrs, _annotations, r.ns)
                   /\ lastOp' = ParseOp(toks, TRUE)
              ELSE /\ lastOp' = ParseOp(toks, FALSE)
                   /\ UNCHANGED <<settings, hasSettings, attrs>>
    /\ UNCHANGED <<decl, pc, err, groups, _settings, _annotations, callParams, parser>>

(* __init__ with parse=True (tokens from the process) or a non-empty list. *)
InitParse ==
    /\ pc = "parser"
    /\ \E toks \in TokenSeqs(decl) :
          LET r == Parse(parser, toks)
          IN  IF r.ok
              THEN /\ settings' = r.ns
                   /\ hasSettings' = TRUE
                   /\ attrs' = AttrsAfterParse(attrs, _annotations, r.ns)
                   /\ lastOp' = ParseOp(toks, TRUE)
                   /\ pc' = "ready"
                   /\ UNCHANGED err
              ELSE /\ lastOp' = ParseOp(toks, FALSE)
                   /\ pc' = "failed"
                   /\ err' = "ParseError"
                   /\ UNCHANGED <<settings, hasSettings, attrs>>
    /\ UNCHANGED <<decl, groups, _settings, _annotations, callParams, parser>>

(* __init__ with a falsy parse argument (False or the empty list).         *)
InitNoParse ==
    /\ pc = "parser"
    /\ pc' = "ready"
    /\ UNCHANGED <<decl, err, groups, _settings, _annotations, callParams,
                   parser, hasSettings, settings, attrs, lastOp>>

-----------------------------------------------------------------------------
(* The synthesized __call__: def set_variables(self, p1, ..., pn) with no  *)
(* default on any parameter, whose body is self.set_settings(locals()).    *)

FieldByName(d, n) == CHOOSE f \in Range(AllFields(d)) : f.name = n

(* Argument values a caller passes for a field of the given type.          *)
CallVals(typ) ==
    CASE typ = "int"   -> {IntV(5), IntV(7)}
      [] typ = "float" -> {FloatV(20)}
      [] typ = "str"   -> {StrV("2.0")}
      [] OTHER         -> {BoolV(TRUE), BoolV(FALSE)}

AllCallVals == UNION {CallVals(t) : t \in {"int", "float", "str", "bool"}}

PosArgs(d, params) ==
    UNION {{ps \in [1..k -> AllCallVals] :
               \A i \in 1..k : ps[i] \in CallVals(FieldByName(d, params[i]).typ)} :
           k \in 0..Len(params)}

KwArgs(d) ==
    UNION {{kw \in [K -> AllCallVals] :
               \A n \in K : kw[n] \in CallVals(FieldByName(d, n).typ)} :
           K \in SUBSET FieldNames(d)}

ParamIndex(params, n) == CHOOSE i \in 1..Len(params) : params[i] = n

(* Python's argument binding: every keyword names a parameter that got no  *)
(* positional value, and no parameter is left without a value.             *)
BindsOk(params, pos, kw) ==
    /\ Len(pos) <= Len(params)
    /\ \A n \in DOMAIN kw :
          /\ n \in Range(params)
          /\ ParamIndex(params, n) > Len(pos)
    /\ \A i \in 1..Len(params) : i > Len(pos) => params[i] \in DOMAIN kw

Bound(params, pos, kw) ==
    [n \in Range(params) |->
        IF ParamIndex(params, n) <= Len(pos)
        THEN pos[ParamIndex(params, n)]
        ELSE kw[n]]

(* ConfigBase.set_settings: setattr on the instance for every entry.       *)
set_settings(at, vardict) ==
    [n \in DOMAIN at \cup DOMAIN vardict |->
        IF n \in DOMAIN vardict THEN vardict[n] ELSE at[n]]

CallOp(pos, kw, ok) ==
    [kind |-> "call", ok |-> ok, err |-> IF ok THEN "none" ELSE "TypeError",
     tokens |-> <<>>, pos |-> pos, kw |-> kw]

ApplyCall ==
    /\ pc = "ready"
    /\ \E pos \in PosArgs(decl, callParams), kw \in KwArgs(decl) :
          IF BindsOk(callParams, pos, kw)
          THEN /\ attrs' = set_settings(attrs, Bound(callParams, pos, kw))
               /\ lastOp' = CallOp(pos, kw, TRUE)
          ELSE /\ lastOp' = CallOp(pos, kw, FALSE)
               /\ UNCHANGED attrs
    /\ UNCHANGED <<decl, pc, err, groups, _settings, _annotations, callParams,
                   parser, hasSettings, settings>>

-----------------------------------------------------------------------------
(* Reads.                                                                  *)

(* A class variable of the settings class: an annotated top-level field    *)
(* whose default the class body assigns.                                   *)
HasClassVar(d, n) ==
    d.style = "annotated" /\ \E f \in Range(d.fields) : f.name = n /\ f.hasDefault

(* facade.name: the instance attribute, else the class variable, else      *)
(* __getattr__ (the parsed namespace, else KeyError).                      *)
GetAttr(n) ==
    IF n \in DOMAIN attrs THEN attrs[n]
    ELSE IF HasClassVar(decl, n) THEN FieldByName(decl, n).default
    ELSE IF hasSettings /\ n \in DOMAIN settings THEN settings[n]
    ELSE MissingV

(* facade[key]: the parsed namespace only.                                 *)
GetItem(key) ==
    IF hasSettings /\ key \in DOMAIN settings THEN settings[key] ELSE MissingV

-----------------------------------------------------------------------------

Next ==
    \/ Setup
    \/ MakeCall
    \/ MakeParser
    \/ InitParse
    \/ InitNoParse
    \/ ParseArgs
    \/ ApplyCall

Spec == Init /\ [][Next]_vars

-----------------------------------------------------------------------------
(* Logical inputs and their equivalent token sequences.                    *)

(* Fields the specification calls positional: no default, not boolean.     *)
IsRequired(f) == ~f.hasDefault /\ f.typ # "bool"

RequiredNames(d) == {f.name : f \in {x \in Range(AllFields(d)) : IsRequired(x)}}

ValidTokens(typ) ==
    CASE typ = "int"  -> {Bare("5"), Bare("7")}
      [] typ = "bool" -> {Bare("5")}
      [] OTHER        -> {Bare("5"), Bare("7"), Bare("2.0")}

(* A logical input: a value token for each field of some set of fields     *)
(* (for a boolean field, membership alone means the flag is supplied).     *)
LogicalInputs(d) ==
    UNION {{g \in [S -> {Bare("5"), Bare("7"), Bare("2.0")}] :
               \A n \in S : g[n] \in ValidTokens(FieldByName(d, n).typ)} :
           S \in SUBSET FieldNames(d)}

TokensOf(f, g) ==
    IF f.name \notin DOMAIN g THEN <<>>
    ELSE IF f.typ = "bool" THEN <<Flag(f.name)>>
    ELSE IF IsRequired(f) THEN <<g[f.name]>>
    ELSE <<Flag(f.name), g[f.name]>>

(* Required fields by position first, then the flags, in declaration order *)
EquivTokens(d, g) ==
    SeqConcat([i \in 1..Len(AllFields(d)) |->
                  IF IsRequired(AllFields(d)[i]) THEN TokensOf(AllFields(d)[i], g) ELSE <<>>])
    \o SeqConcat([i \in 1..Len(AllFields(d)) |->
                  IF IsRequired(AllFields(d)[i]) THEN <<>> ELSE TokensOf(AllFields(d)[i], g)])

(* The value the specification gives a field under a logical input.        *)
ExpectedValue(f, g) ==
    IF f.name \notin DOMAIN g THEN (IF f.hasDefault THEN f.default ELSE NoneV)
    ELSE IF f.typ = "bool" THEN BoolV(~Truthy(f.default))
    ELSE Convert(f.typ, g[f.name]).v

(* str(v) for an argument value.                                           *)
Format(v) ==
    CASE v.tag = "int"   -> IF v.i = 5 THEN Bare("5") ELSE Bare("7")
      [] v.tag = "float" -> Bare("2.0")
      [] OTHER           -> Bare(v.s)

(* The logical input of the last call: the fields it was given values for. *)
CallSupplied(op) == {callParams[i] : i \in 1..Len(op.pos)} \cup DOMAIN op.kw

CallValue(op, n) ==
    IF n \in DOMAIN op.kw THEN op.kw[n] ELSE op.pos[ParamIndex(callParams, n)]

(* A boolean argument equal to its default corresponds to no flag.         *)
CallInput(d, op) ==
    [n \in {m \in CallSupplied(op) :
               FieldByName(d, m).typ = "bool" => CallValue(op, m) # FieldByName(d, m).default} |->
        IF FieldByName(d, n).typ = "bool" THEN Bare("5") ELSE Format(CallValue(op, n))]

IsLogicalCall(d, op) ==
    /\ op.kind = "call"
    /\ \A n \in DOMAIN op.kw : ~(\E i \in 1..Len(op.pos) : callParams[i] = n)
    /\ {f.name : f \in {x \in Range(AllFields(d)) : ~x.hasDefault}} \subseteq CallSupplied(op)

(* What a freshly constructed facade returns for facade.n after parsing.   *)
FreshAttr(n, toks) ==
    LET ns == Parse(parser, toks).ns
        at == AttrsAfterParse(EmptyMap, _annotations, ns)
    IN  IF n \in DOMAIN at THEN at[n]
        ELSE IF HasClassVar(decl, n) THEN FieldByName(decl, n).default
        ELSE IF n \in DOMAIN ns THEN ns[n]
        ELSE MissingV

Constructed == pc = "ready"

-----------------------------------------------------------------------------
(* Claims.                                                                 *)

(* C1: a parse whose tokens supply every required field and leave out a    *)
(* defaulted field succeeds and resolves that field to its declared        *)
(* default, in either declaration style and for falsy defaults too.        *)
C1_DefaultWhenOmitted ==
    lastOp.kind = "parse" =>
        \A g \in LogicalInputs(decl) :
            (RequiredNames(decl) \subseteq DOMAIN g
             /\ lastOp.tokens = EquivTokens(decl, g))
            => /\ lastOp.ok
               /\ \A f \in Range(AllFields(decl)) :
                     (f.hasDefault /\ f.name \notin DOMAIN g)
                        => GetItem(f.name) = f.default

(* C2: calling the synthesized callable with a value for each field that   *)
(* has no default and for any subset of the defaulted fields completes and *)
(* leaves every field as parsing the equivalent token sequence would.      *)
C2_CallParseRoundTrip ==
    IsLogicalCall(decl, lastOp) =>
        /\ lastOp.ok
        /\ Parse(parser, EquivTokens(decl, CallInput(decl, lastOp))).ok
        /\ \A n \in FieldNames(decl) :
              GetAttr(n) = Parse(parser, EquivTokens(decl, CallInput(decl, lastOp))).ns[n]

(* C3: once introspection of a declaration with nested groups has produced *)
(* a grouped spec collection, no later construction step fails, and a      *)
(* parse resolves every field to the supplied value or to the default.     *)
C3_GroupedConstructs ==
    (decl.groups # <<>> /\ _settings.grouped) =>
        /\ (pc = "failed" => err = "ParseError")
        /\ (lastOp.kind = "parse" /\ lastOp.ok) =>
              \A g \in LogicalInputs(decl) :
                  lastOp.tokens = EquivTokens(decl, g) =>
                      \A f \in Range(AllFields(decl)) :
                          GetItem(f.name) = ExpectedValue(f, g)

(* C4: after a successful parse a boolean field with a declared default    *)
(* holds the negation of that default when the parse's tokens hold its     *)
(* flag and the default itself when they do not, whatever came before.     *)
C4_ToggleNegatesDefault ==
    (lastOp.kind = "parse" /\ lastOp.ok) =>
        \A f \in Range(AllFields(decl)) :
            (f.typ = "bool" /\ f.hasDefault /\ f.default.tag = "bool") =>
                GetItem(f.name) =
                    BoolV(IF Flag(f.name) \in Range(lastOp.tokens)
                          THEN ~f.default.b ELSE f.default.b)

(* C4 witness: a reparse that supplies the flag of a boolean field whose   *)
(* default is True, after an earlier parse, leaves the field False.        *)
C4_Witness ==
    /\ lastOp.kind = "parse" /\ lastOp.ok
    /\ \E f \in Range(AllFields(decl)) :
          /\ f.typ = "bool" /\ f.hasDefault /\ f.default = BoolV(TRUE)
          /\ Flag(f.name) \in Range(lastOp.tokens)
          /\ GetItem(f.name) = BoolV(FALSE)

(* C5 as stated: a parse whose tokens hold no token for a field without a  *)
(* default (boolean included) fails.                                       *)
C5_MissingRequiredFails ==
    lastOp.kind = "parse" =>
        \A g \in LogicalInputs(decl) :
            (lastOp.tokens = EquivTokens(decl, g)
             /\ \E f \in Range(AllFields(decl)) :
                   ~f.hasDefault /\ f.name \notin DOMAIN g)
            => ~lastOp.ok

(* C5 amended: a parse whose tokens hold no token for a non-boolean field  *)
(* without a default fails with a parse error.                             *)
C5_MissingRequiredValueFails ==
    lastOp.kind = "parse" =>
        \A g \in LogicalInputs(decl) :
            (lastOp.tokens = EquivTokens(decl, g)
             /\ \E f \in Range(AllFields(decl)) :
                   IsRequired(f) /\ f.name \notin DOMAIN g)
            => (~lastOp.ok /\ lastOp.err = "ParseError")

(* C5 witness: a parse that supplies a defaulted field only, on a          *)
(* declaration with a required value field, was rejected.                  *)
C5_Witness ==
    /\ pc = "ready"
    /\ lastOp.kind = "parse" /\ ~lastOp.ok
    /\ \E f \in Range(AllFields(decl)), h \in Range(AllFields(decl)) :
          /\ IsRequired(f) /\ h.hasDefault
          /\ lastOp.tokens = <<Flag(h.name), Bare("5")>>

(* C6: once a parse has succeeded, facade.f and facade["f"] agree for      *)
(* every declared field, also after later calls and reparses.              *)
C6_AttrEqualsItem ==
    (Constructed /\ hasSettings) =>
        \A n \in FieldNames(decl) : GetAttr(n) = GetItem(n)

(* C7: after a successful parse_args(t) every field read from the facade   *)
(* equals what a fresh facade gives after parsing t.                       *)
C7_ReparseLastWriteWins ==
    (Constructed /\ lastOp.kind = "parse" /\ lastOp.ok) =>
        \A n \in FieldNames(decl) : GetAttr(n) = FreshAttr(n, lastOp.tokens)

(* C8: the callable's parameters are the fields without a declared default *)
(* in declaration order, then the fields with one in declaration order.    *)
C8_ParamsRequiredFirst ==
    pc \in {"call", "parser", "ready"} =>
        callParams =
            [i \in 1..Len(SelectSeq(AllFields(decl), LAMBDA f : ~f.hasDefault)) |->
                SelectSeq(AllFields(decl), LAMBDA f : ~f.hasDefault)[i].name]
            \o [i \in 1..Len(SelectSeq(AllFields(decl), LAMBDA f : f.hasDefault)) |->
                SelectSeq(AllFields(decl), LAMBDA f : f.hasDefault)[i].name]

(* C9: introspecting a declaration with top-level fields and groups        *)
(* completes and files the top-level fields under "default" and each       *)
(* group's fields under the group's name, one entry per group.             *)
C9_DefaultGroupKey ==
    (decl.style = "annotated" /\ decl.fields # <<>> /\ decl.groups # <<>>
     /\ pc # "new") =>
        /\ ~(pc = "failed" /\ err = "ValueError")
        /\ _settings.grouped
        /\ Len(_settings.byGroup) = 1 + Len(decl.groups)
        /\ _settings.byGroup[1].name = "default"
        /\ [i \in 1..Len(_settings.byGroup[1].specs) |->
               StripDashes(_settings.byGroup[1].specs[i].flag)]
           = [i \in 1..Len(decl.fields) |-> decl.fields[i].name]
        /\ \A k \in 1..Len(decl.groups) :
              /\ _settings.byGroup[k + 1].name = decl.groups[k].name
              /\ [i \in 1..Len(_settings.byGroup[k + 1].specs) |->
                     StripDashes(_settings.byGroup[k + 1].specs[i].flag)]
                 = [i \in 1..Len(decl.groups[k].fields) |-> decl.groups[k].fields[i].name]

(* C10: in both introspection paths a non-boolean field gets the bare      *)
(* positional form iff it has no declared default, and a boolean field     *)
(* always gets the --name form.                                            *)
C10_PositionalIffNoDefault ==
    (pc \in {"setup", "call", "parser", "ready"} /\ ~_settings.grouped) =>
        /\ Len(_settings.flat) = Len(decl.fields)
        /\ \A i \in 1..Len(decl.fields) :
              _settings.flat[i].flag =
                  IF IsRequired(decl.fields[i])
                  THEN Bare(decl.fields[i].name)
                  ELSE Flag(decl.fields[i].name)

====
